---- MODULE Spec2Model ----
(***************************************************************************)
(* A model of bouncy_ball_engine.py: one ball bouncing inside a circular   *)
(* arena, its motion trail and impact flashes, and the frame loop of App.  *)
(*                                                                         *)
(* Python floats are modelled as decimal fixed-point numbers: the integer  *)
(* k stands for k / S.  With S = 1000 a length is held in thousandths of a *)
(* pixel, a velocity in thousandths of a pixel per second and a time in    *)
(* milliseconds (pygame's Clock.tick returns whole milliseconds, so every  *)
(* dt is held exactly).  Every product and quotient rounds to the nearest  *)
(* representable number, as a float operation does; sums and differences   *)
(* are exact.                                                              *)
(***************************************************************************)
EXTENDS Integers, Sequences, FiniteSets

VARIABLES
    x, y,            \* Ball.x, Ball.y
    vx, vy,          \* Ball.vx, Ball.vy
    radius,          \* Ball.radius
    color_index,     \* Ball.color_index
    motion_trail,    \* TrailManager.motion_trail, oldest first
    impacts,         \* TrailManager.impacts: records [pos, t, col]
    running,         \* App.running
    pc,              \* the position of App.run in its loop
    dt,              \* the dt of the current frame
    calls,           \* the collaborator calls of the current loop iteration
    frame,           \* observer: Ball.update calls completed
    hits,            \* observer: collisions processed
    last,            \* observer: what the latest Ball.update saw and did
    history,         \* observer: the ball's position after each update
    added            \* observer: every impact ever added, with its age

vars == <<x, y, vx, vy, radius, color_index, motion_trail, impacts, running,
          pc, dt, calls, frame, hits, last, history, added>>

----------------------------------------------------------------------------
(* Fixed-point arithmetic                                                   *)

\* The number of fixed-point units in 1.0.
S == 10 * 10 * 10

Abs(a) == IF a < 0 THEN -a ELSE a

Sgn(a) == IF a < 0 THEN -1 ELSE 1

Min(a, b) == IF a <= b THEN a ELSE b

Max(a, b) == IF a >= b THEN a ELSE b

\* p / q rounded to the nearest integer, for p >= 0 and q > 0.
RoundDiv(p, q) == (p + (q \div 2)) \div q

\* The float product a * b.  The larger factor is split at S so that no
\* intermediate value leaves the 32-bit range TLC computes in.
Mul(a, b) ==
    LET big   == Max(Abs(a), Abs(b))
        small == Min(Abs(a), Abs(b))
    IN  Sgn(a) * Sgn(b) * ((big \div S) * small + RoundDiv((big % S) * small, S))

\* The float quotient a / b for b > 0, by long division: three decimal
\* digits after the point, then rounding on the remainder.
Div(a, b) ==
    LET p  == Abs(a)
        r0 == p % b
        d1 == (r0 * 10) \div b
        r1 == (r0 * 10) % b
        d2 == (r1 * 10) \div b
        r2 == (r1 * 10) % b
        d3 == (r2 * 10) \div b
        r3 == (r2 * 10) % b
    IN  Sgn(a) * ((p \div b) * S + d1 * 100 + d2 * 10 + d3
                  + (IF 2 * r3 >= b THEN 1 ELSE 0))

\* p * p as a pair <<h, l>> standing for h * S * S + l, with 0 <= l < S * S.
Sq(p) ==
    LET ph == p \div S
        pl == p % S
        m  == 2 * ph * pl
        l0 == (m % S) * S + pl * pl
    IN  <<ph * ph + (m \div S) + (l0 \div (S * S)), l0 % (S * S)>>

\* The sum of two such pairs.
AddSq(u, v) ==
    <<u[1] + v[1] + ((u[2] + v[2]) \div (S * S)), (u[2] + v[2]) % (S * S)>>

LeqSq(u, v) == u[1] < v[1] \/ (u[1] = v[1] /\ u[2] <= v[2])

\* The largest r in lo .. hi - 1 with r * r <= n, given lo * lo <= n < hi * hi.
RECURSIVE FloorSqrt(_, _, _)
FloorSqrt(n, lo, hi) ==
    IF hi - lo <= 1 THEN lo
    ELSE LET mid == (lo + hi) \div 2
         IN  IF LeqSq(Sq(mid), n) THEN FloorSqrt(n, mid, hi)
                                  ELSE FloorSqrt(n, lo, mid)

\* math.hypot(a, b): the square root of a * a + b * b to the nearest unit.
Hypot(a, b) ==
    LET n  == AddSq(Sq(Abs(a)), Sq(Abs(b)))
        r  == FloorSqrt(n, Max(Abs(a), Abs(b)), Abs(a) + Abs(b) + 1)
        r2 == Sq(r)
        d  == (n[1] - r2[1]) * S * S + (n[2] - r2[2])
    IN  IF d > r THEN r + 1 ELSE r

----------------------------------------------------------------------------
(* Config                                                                   *)

WIDTH == 800

HEIGHT == 600

FPS == 120

MARGIN == 50

BALL_BASE_RADIUS == 15 * S

BALL_MAX_RATIO == (8 * S) \div 10

GROWTH_PER_SEC == 12 * S

RESTIUTION == (95 * S) \div 100

TANGENTIAL_FRICTION == (99 * S) \div 100

LINEAR_FRICTION == (999 * S) \div 1000

GRAVITY == 200 * S

TRAIL_LEN == 140

IMPACT_LIFETIME == (6 * S) \div 10

COLORS == << <<255, 0, 0>>, <<0, 255, 0>>, <<0, 0, 255>>,
             <<255, 255, 0>>, <<255, 0, 255>>, <<0, 255, 255>> >>

\* The arena App.__init__ builds from the window size.
ArenaCx == (WIDTH \div 2) * S

ArenaCy == (HEIGHT \div 2) * S

ArenaRadius == ((Min(WIDTH, HEIGHT) \div 2) - MARGIN) * S

----------------------------------------------------------------------------
(* TrailManager                                                             *)

\* A push_position that drops the newest entry of a full trail, not the oldest.
PushPosition_DropNewest(trail, px, py) ==
    IF Len(trail) >= TRAIL_LEN
    THEN Append(SubSeq(trail, 1, Len(trail) - 1), <<px, py>>)
    ELSE Append(trail, <<px, py>>)

\* push_position: append to a deque of maxlen TRAIL_LEN, which drops its
\* oldest entry when full.
PushPosition(trail, px, py) ==
    IF Len(trail) >= TRAIL_LEN
    THEN Append(Tail(trail), <<px, py>>)
    ELSE Append(trail, <<px, py>>)

\* add_impact
AddImpact(imps, pos, col) ==
    Append(imps, [pos |-> pos, t |-> IMPACT_LIFETIME, col |-> col])

\* A test that keeps an impact whose life is exactly used up.
Alive_AtZero(t) == t >= 0

\* The test of update that keeps an impact.
Alive(t) == t > 0

\* update: every impact loses d of life; those with life left stay, in order.
TrailUpdate(imps, d) ==
    LET aged == [i \in 1..Len(imps) |-> [imps[i] EXCEPT !.t = @ - d]]
    IN  SelectSeq(aged, LAMBDA r : Alive(r.t))

\* draw: one line per impact, then one line per pair of consecutive trail
\* positions when the trail holds more than one.
TrailsDraw(imps, trail) ==
    [i \in 1..Len(imps) |-> "impact_line"]
    \o (IF Len(trail) > 1 THEN [i \in 1..(Len(trail) - 1) |-> "trail_line"]
                          ELSE <<>>)

----------------------------------------------------------------------------
(* Ball                                                                     *)

\* The speed Ball.__init__ gives the ball along x, before the cosine.
InitSpeed == 250 * S

\* The velocity Ball.__init__ gives the ball along y.
InitVy == -150 * S

\* Ball.color
Color(ci) == COLORS[ci + 1]

\* A cycle_color that does not wrap.
CycleColor_NoWrap(ci) == ci + 1

\* cycle_color
CycleColor(ci) == (ci + 1) % Len(COLORS)

\* A reflection that forgets the friction on the tangential component.
ReflectOnCircle_NoFriction(pvx, pvy, nx, ny) ==
    LET vn   == Mul(pvx, nx) + Mul(pvy, ny)
        vt_x == pvx - Mul(vn, nx)
        vt_y == pvy - Mul(vn, ny)
        vn_reflected == Mul(-vn, RESTIUTION)
    IN  <<Mul(vn_reflected, nx) + vt_x, Mul(vn_reflected, ny) + vt_y>>

\* _reflect_on_circle: the new <<vx, vy>> for the normal <<nx, ny>>.
ReflectOnCircle(pvx, pvy, nx, ny) ==
    LET vn   == Mul(pvx, nx) + Mul(pvy, ny)
        vt_x == pvx - Mul(vn, nx)
        vt_y == pvy - Mul(vn, ny)
        vn_reflected == Mul(-vn, RESTIUTION)
    IN  <<Mul(vn_reflected, nx) + Mul(vt_x, TANGENTIAL_FRICTION),
          Mul(vn_reflected, ny) + Mul(vt_y, TANGENTIAL_FRICTION)>>

\* A gravity step that is not scaled by dt.
ApplyGravity_NoDt(v, d) == v + GRAVITY

\* update, line 128: gravity on vy.
ApplyGravity(v, d) == v + Mul(GRAVITY, d)

\* update, lines 130-131: air friction, once per frame.
ApplyFriction(v) == Mul(v, LINEAR_FRICTION)

\* update, lines 133-134: explicit Euler on one coordinate.
Integrate(p, v, d) == p + Mul(v, d)

\* update, line 136
TargetMax == Mul(ArenaRadius, BALL_MAX_RATIO)

\* A growth that is not clamped to the cap.
Grow_Uncapped(r, d) ==
    IF r < TargetMax THEN r + Mul(GROWTH_PER_SEC, d) ELSE r

\* update, lines 137-138: the radius grows up to the cap.
Grow(r, d) ==
    IF r < TargetMax THEN Min(TargetMax, r + Mul(GROWTH_PER_SEC, d)) ELSE r

\* update, line 145: the collision test.
Outside(dist, max_dist) == dist > max_dist

\* update, lines 146-149: the outward normal.
Normal(dx, dy, dist) ==
    IF dist = 0 THEN <<S, 0>> ELSE <<Div(dx, dist), Div(dy, dist)>>

\* A clamp onto the arena's circle itself, forgetting the ball's radius.
ClampOnto_ArenaEdge(c, n, max_dist) == c + Mul(n, ArenaRadius)

\* update, lines 151-152: one coordinate put back on the boundary.
ClampOnto(c, n, max_dist) == c + Mul(n, max_dist)

\* An impact recorded after the colour cycle.
ImpactColor_AfterCycle(ci) == Color(CycleColor(ci))

\* update, line 156: the colour of the impact of a collision.
ImpactColor(ci) == Color(ci)

\* update, lines 145-161: the impacts after an update that collided at pos:
\* the impact is added first and ages with the others.
ImpactsAfterHit(imps, pos, ci, d) ==
    TrailUpdate(AddImpact(imps, pos, ImpactColor(ci)), d)

\* Ball.update(d): the ball, its trails and the observers after the update.
\* (A record, so that TLC computes the update once for all the variables.)
BallAfter(d) ==
    LET vy1  == ApplyGravity(vy, d)
        vx2  == ApplyFriction(vx)
        vy2  == ApplyFriction(vy1)
        x1   == Integrate(x, vx2, d)
        y1   == Integrate(y, vy2, d)
        r1   == Grow(radius, d)
        dx   == x1 - ArenaCx
        dy   == y1 - ArenaCy
        dist == Hypot(dx, dy)
        max_dist == ArenaRadius - r1
        hit  == Outside(dist, max_dist)
        n    == Normal(dx, dy, dist)
        x2   == IF hit THEN ClampOnto(ArenaCx, n[1], max_dist) ELSE x1
        y2   == IF hit THEN ClampOnto(ArenaCy, n[2], max_dist) ELSE y1
        v3   == IF hit THEN ReflectOnCircle(vx2, vy2, n[1], n[2])
                       ELSE <<vx2, vy2>>
        born == IF hit
                THEN Append(added, [pos |-> <<x2, y2>>,
                                    col |-> Color(color_index), age |-> 0])
                ELSE added
    IN  [x |-> x2, y |-> y2, vx |-> v3[1], vy |-> v3[2], radius |-> r1,
         color_index |-> IF hit THEN CycleColor(color_index) ELSE color_index,
         impacts |-> IF hit
                     THEN ImpactsAfterHit(impacts, <<x2, y2>>, color_index, d)
                     ELSE TrailUpdate(impacts, d),
         motion_trail |-> PushPosition(motion_trail, x2, y2),
         hits |-> IF hit THEN hits + 1 ELSE hits,
         last |-> [collided |-> hit, nx |-> n[1], ny |-> n[2],
                   dist |-> dist, max_dist |-> max_dist,
                   ivx |-> vx2, ivy |-> vy2,
                   x0 |-> x, y0 |-> y, vx0 |-> vx, vy0 |-> vy,
                   radius0 |-> radius, color0 |-> color_index, dt |-> d],
         history |-> Append(history, <<x2, y2>>),
         added |-> [i \in 1..Len(born) |-> [born[i] EXCEPT !.age = @ + d]]]

BallUpdate(d) ==
    \E b \in {BallAfter(d)} :
        /\ x' = b.x
        /\ y' = b.y
        /\ vx' = b.vx
        /\ vy' = b.vy
        /\ radius' = b.radius
        /\ color_index' = b.color_index
        /\ impacts' = b.impacts
        /\ motion_trail' = b.motion_trail
        /\ frame' = frame + 1
        /\ hits' = b.hits
        /\ last' = b.last
        /\ history' = b.history
        /\ added' = b.added

\* Ball.draw: the trails, then the ball.
BallDraw(imps, trail) == TrailsDraw(imps, trail) \o <<"ball_circle">>

----------------------------------------------------------------------------
(* App                                                                      *)

\* The cosines of the angle Ball.__init__ draws, sampled.
AngleCos == {-S, 0, (6 * S) \div 10}

\* What clock.tick(FPS) returns, in milliseconds: the frame period, or more
\* after a stall of the process.
FramePeriod == 1000 \div FPS

Ticks == {FramePeriod, 1000, 4000}

\* clock.tick(FPS) / 1000.0
DtOf(ms) == (ms * S) \div 1000

\* What one poll of the event queue may hold.
Events == {"NONE", "QUIT", "KEYDOWN_ESCAPE", "KEYDOWN_OTHER"}

\* The frames a run of the loop is followed for.
MaxFrames == 7

\* The observer before any update.
NoUpdate == [collided |-> FALSE, nx |-> 0, ny |-> 0, dist |-> 0, max_dist |-> 0,
             ivx |-> 0, ivy |-> 0, x0 |-> 0, y0 |-> 0, vx0 |-> 0, vy0 |-> 0,
             radius0 |-> 0, color0 |-> 0, dt |-> 0]

\* What App.__init__, Ball.__init__ and TrailManager.__init__ set, but for the
\* ball's position, velocity and radius.
Constructed ==
    /\ color_index = 0
    /\ motion_trail = <<>>
    /\ impacts = <<>>
    /\ running = TRUE
    /\ dt = 0
    /\ calls = <<>>
    /\ frame = 0
    /\ hits = 0
    /\ last = NoUpdate
    /\ history = <<>>
    /\ added = <<>>

\* App.__init__ with Ball.__init__
Init ==
    /\ Constructed
    /\ pc = "loop"
    /\ x = ArenaCx
    /\ y = ArenaCy - Mul(ArenaRadius, S \div 2)
    /\ \E c \in AngleCos : vx = Mul(InitSpeed, c)
    /\ vy = InitVy
    /\ radius = BALL_BASE_RADIUS

\* run, lines 183-184: the loop test and the clock.
Tick(ticks, max_frames) ==
    /\ pc = "loop"
    /\ running
    /\ frame < max_frames
    /\ \E ms \in ticks : dt' = DtOf(ms)
    /\ pc' = "events"
    /\ calls' = <<"tick">>
    /\ UNCHANGED <<x, y, vx, vy, radius, color_index, motion_trail, impacts,
                   running, frame, hits, last, history, added>>

\* _handle_events
HandleEvents ==
    /\ pc = "events"
    /\ \E ev \in Events :
          running' = IF ev \in {"QUIT", "KEYDOWN_ESCAPE"} THEN FALSE ELSE running
    /\ pc' = "update"
    /\ calls' = Append(calls, "event_get")
    /\ UNCHANGED <<x, y, vx, vy, radius, color_index, motion_trail, impacts,
                   dt, frame, hits, last, history, added>>

\* _update
UpdateStep ==
    /\ pc = "update"
    /\ BallUpdate(dt)
    /\ pc' = "draw"
    /\ calls' = Append(calls, "ball_update")
    /\ UNCHANGED <<running, dt>>

\* A _draw that draws the ball before the arena.
AppDraw_BallFirst(imps, trail) ==
    <<"fill">> \o BallDraw(imps, trail) \o <<"arena_circle", "flip">>

\* _draw: the calls it issues, in order.
AppDraw(imps, trail) ==
    <<"fill", "arena_circle">> \o BallDraw(imps, trail) \o <<"flip">>

DrawStep ==
    /\ pc = "draw"
    /\ calls' = calls \o AppDraw(impacts, motion_trail)
    /\ pc' = "loop"
    /\ UNCHANGED <<x, y, vx, vy, radius, color_index, motion_trail, impacts,
                   running, dt, frame, hits, last, history, added>>

\* run, lines 183 and 189: the loop ends once running is false.
Exit ==
    /\ pc = "loop"
    /\ ~running
    /\ pc' = "done"
    /\ calls' = <<"quit">>
    /\ UNCHANGED <<x, y, vx, vy, radius, color_index, motion_trail, impacts,
                   running, dt, frame, hits, last, history, added>>

\* The loop under a clock that may stall.
Next ==
    \/ Tick(Ticks, MaxFrames)
    \/ HandleEvents
    \/ UpdateStep
    \/ DrawStep
    \/ Exit

Spec == Init /\ [][Next]_vars

\* The loop under a clock that never stalls, followed for long enough to
\* fill the motion trail.
MaxSteadyFrames == 142

NextSteady ==
    \/ Tick({FramePeriod}, MaxSteadyFrames)
    \/ HandleEvents
    \/ UpdateStep
    \/ DrawStep
    \/ Exit

SpecSteady == Init /\ [][NextSteady]_vars

----------------------------------------------------------------------------
(* TrailManager on its own: add_impact and update in any order              *)

ImpactPositions == {<<ArenaCx, ArenaCy + 235 * S>>}

ImpactTicks == {100, 300, 600}

\* The calls a run of the TrailManager is followed for.
MaxImpactOps == 6

InitImpacts ==
    /\ Constructed
    /\ pc = "trails"
    /\ x = ArenaCx
    /\ y = ArenaCy
    /\ vx = 0
    /\ vy = 0
    /\ radius = BALL_BASE_RADIUS

\* trails.add_impact(pos, col)
CallAddImpact ==
    /\ pc = "trails"
    /\ frame < MaxImpactOps
    /\ \E pos \in ImpactPositions, ci \in {0, 1} :
          /\ impacts' = AddImpact(impacts, pos, Color(ci))
          /\ added' = Append(added, [pos |-> pos, col |-> Color(ci), age |-> 0])
    /\ frame' = frame + 1
    /\ UNCHANGED <<x, y, vx, vy, radius, color_index, motion_trail, running,
                   pc, dt, calls, hits, last, history>>

\* trails.update(dt), dt > 0
CallTrailUpdate ==
    /\ pc = "trails"
    /\ frame < MaxImpactOps
    /\ \E ms \in ImpactTicks :
          /\ dt' = DtOf(ms)
          /\ impacts' = TrailUpdate(impacts, DtOf(ms))
          /\ added' = [i \in 1..Len(added) |->
                          [added[i] EXCEPT !.age = @ + DtOf(ms)]]
    /\ frame' = frame + 1
    /\ UNCHANGED <<x, y, vx, vy, radius, color_index, motion_trail, running,
                   pc, calls, hits, last, history>>

NextImpacts == CallAddImpact \/ CallTrailUpdate

SpecImpacts == InitImpacts /\ [][NextImpacts]_vars

----------------------------------------------------------------------------
(* _reflect_on_circle on its own                                            *)

\* Velocities and unit normals for which every product of the reflection
\* is representable, so that the reflection is computed without rounding.
ReflectSpeeds == {-300 * S, -100 * S, 0, 100 * S, 200 * S}

UnitNormals ==
    {<<S, 0>>, <<-S, 0>>, <<0, S>>, <<0, -S>>}
    \cup {<<a * 6 * (S \div 10), b * 8 * (S \div 10)>> : a, b \in {-1, 1}}
    \cup {<<a * 8 * (S \div 10), b * 6 * (S \div 10)>> : a, b \in {-1, 1}}

InitReflect ==
    /\ Constructed
    /\ pc = "reflect"
    /\ x = ArenaCx
    /\ y = ArenaCy
    /\ vx \in ReflectSpeeds
    /\ vy \in ReflectSpeeds
    /\ radius = BALL_BASE_RADIUS

\* ball._reflect_on_circle(nx, ny)
CallReflect ==
    /\ pc = "reflect"
    /\ \E n \in UnitNormals :
          /\ vx' = ReflectOnCircle(vx, vy, n[1], n[2])[1]
          /\ vy' = ReflectOnCircle(vx, vy, n[1], n[2])[2]
          /\ last' = [NoUpdate EXCEPT !.collided = TRUE, !.nx = n[1], !.ny = n[2],
                                      !.ivx = vx, !.ivy = vy]
    /\ pc' = "reflected"
    /\ UNCHANGED <<x, y, radius, color_index, motion_trail, impacts, running,
                   dt, calls, frame, hits, history, added>>

NextReflect == CallReflect

SpecReflect == InitReflect /\ [][NextReflect]_vars

----------------------------------------------------------------------------
(* The loop started with the ball at rest at the arena centre               *)

GravityRadii == {BALL_BASE_RADIUS, TargetMax - 6 * S, TargetMax}

GravityTicks == {FramePeriod, 100, 500, 2000}

MaxGravityFrames == 3

InitGravity ==
    /\ Constructed
    /\ pc = "loop"
    /\ x = ArenaCx
    /\ y = ArenaCy
    /\ vx = 0
    /\ vy = 0
    /\ radius \in GravityRadii

NextGravity ==
    \/ Tick(GravityTicks, MaxGravityFrames)
    \/ HandleEvents
    \/ UpdateStep
    \/ DrawStep
    \/ Exit

SpecGravity == InitGravity /\ [][NextGravity]_vars

----------------------------------------------------------------------------
(* Containment (C1)                                                         *)

\* The squared distance from the ball centre to the arena centre is at most
\* the square of arena.radius - ball.radius + slack, computed exactly.
WithinArena(slack) ==
    LeqSq(AddSq(Sq(Abs(x - ArenaCx)), Sq(Abs(y - ArenaCy))),
          Sq(ArenaRadius - radius + slack))

\* The rounding of the clamp: the two components of the unit normal are each
\* rounded to 1 / S, and are scaled by at most arena.radius.
ContainEps == ArenaRadius \div S

\* C1 as stated: after every Ball.update the distance from the ball centre
\* to the arena centre is at most arena.radius - ball.radius.
C1_ContainedExactly == WithinArena(0)

\* C1 as amended: after every Ball.update the distance from the ball centre
\* to the arena centre is at most arena.radius - ball.radius plus the
\* rounding error of the clamp, whether the boundary was reached by motion
\* or by the radius growing.
C1_ContainedWithinRounding == WithinArena(ContainEps)

\* A collision that only the growth of the radius caused (the ball was still
\* inside for the radius it had before the update), clamped back.
C1_GrowthCollisionClamped ==
    /\ last.collided
    /\ last.dist <= ArenaRadius - last.radius0
    /\ hits >= 2

----------------------------------------------------------------------------
(* Radius growth (C2)                                                       *)

\* C2: from one state to the next the radius never decreases, never exceeds
\* arena.radius * BALL_MAX_RATIO, and stays at that cap once it equals it.
C2_RadiusMonotoneCapped ==
    [][ /\ radius' >= radius
        /\ radius' <= Mul(ArenaRadius, BALL_MAX_RATIO)
        /\ (radius = Mul(ArenaRadius, BALL_MAX_RATIO) => radius' = radius) ]_vars

\* An update that found the radius at the cap and left it there.
C2_UpdateAtCap ==
    /\ frame > 0
    /\ last.radius0 = Mul(ArenaRadius, BALL_MAX_RATIO)
    /\ radius = last.radius0

----------------------------------------------------------------------------
(* Colour cycling (C5)                                                      *)

\* C5: an update with a collision advances color_index by one modulo
\* len(COLORS), an update without one leaves it alone; so after N collisions
\* it is N mod len(COLORS) (it starts at 0), always within 0 .. len(COLORS)-1.
C5_ColourCycles ==
    /\ color_index \in 0..(Len(COLORS) - 1)
    /\ color_index = hits % Len(COLORS)
    /\ frame > 0 =>
          color_index = IF last.collided THEN (last.color0 + 1) % Len(COLORS)
                                         ELSE last.color0

\* The index has gone once round the palette and on.
C5_WrappedAround == hits > Len(COLORS) /\ color_index = 1

----------------------------------------------------------------------------
(* Impact recording (C8)                                                    *)

\* The impacts of imps with life left after d more, in order.
Survivors(imps, d) ==
    LET keep == {i \in 1..Len(imps) : imps[i].t - d > 0}
        nth(k) == CHOOSE i \in keep : Cardinality({j \in keep : j <= i}) = k
    IN  [k \in 1..Cardinality(keep) |->
            [pos |-> imps[nth(k)].pos, t |-> imps[nth(k)].t - d,
             col |-> imps[nth(k)].col]]

\* C8: an update with a collision adds exactly one impact, at the clamped
\* position and in the colour the ball had before the colour cycle, before
\* the trail push and the decay of that update (so the new impact has
\* already aged by dt, and is gone if dt uses up its whole life); an update
\* without a collision adds none.
C8_ImpactRecorded ==
    [][ (pc = "update" /\ pc' = "draw") =>
          IF last'.collided
          THEN /\ Len(added') = Len(added) + 1
               /\ added'[Len(added')].pos = <<x', y'>>
               /\ added'[Len(added')].col = COLORS[color_index + 1]
               /\ motion_trail'[Len(motion_trail')] = <<x', y'>>
               /\ impacts' = Survivors(impacts, dt)
                             \o (IF IMPACT_LIFETIME - dt > 0
                                 THEN << [pos |-> <<x', y'>>,
                                          t   |-> IMPACT_LIFETIME - dt,
                                          col |-> COLORS[color_index + 1]] >>
                                 ELSE <<>>)
          ELSE /\ Len(added') = Len(added)
               /\ impacts' = Survivors(impacts, dt) ]_vars

\* A collision has left its impact in the list, in the pre-cycle colour,
\* behind an older impact.
C8_ImpactListed ==
    /\ last.collided
    /\ Len(impacts) > 0
    /\ impacts[Len(impacts)].pos = <<x, y>>
    /\ impacts[Len(impacts)].col = COLORS[last.color0 + 1]
    /\ impacts[Len(impacts)].col # COLORS[color_index + 1]

----------------------------------------------------------------------------
(* Frame ordering (C9)                                                      *)

DrawKinds == {"arena_circle", "impact_line", "trail_line", "ball_circle"}

\* The draw primitives among the calls of the iteration, in order.
Drawn == SelectSeq(calls, LAMBDA c : c \in DrawKinds)

Count(kind) == Cardinality({i \in 1..Len(calls) : calls[i] = kind})

\* C9: an iteration of the loop polls the events once, then runs
\* Ball.update to its end, and only then draws: the arena outline, one line
\* per impact, the trail segments, the ball.  No draw call comes before the
\* update of its frame.
C9_FrameOrder ==
    /\ pc = "update" => calls = <<"tick", "event_get">>
    /\ pc = "draw"   => calls = <<"tick", "event_get", "ball_update">>
    /\ pc \in {"events", "update", "draw"} => Drawn = <<>>
    /\ (pc = "loop" /\ frame > 0) =>
          /\ SubSeq(calls, 1, 3) = <<"tick", "event_get", "ball_update">>
          /\ Count("event_get") = 1
          /\ Count("ball_update") = 1
          /\ Drawn = <<"arena_circle">>
                     \o [i \in 1..Len(impacts) |-> "impact_line"]
                     \o [i \in 1..(Len(motion_trail) - 1) |-> "trail_line"]
                     \o <<"ball_circle">>

\* A frame has been drawn with all four kinds of draw call.
C9_FullFrameDrawn ==
    /\ pc = "loop"
    /\ frame > 1
    /\ Len(impacts) > 0
    /\ Len(motion_trail) > 1
    /\ Len(Drawn) = Len(impacts) + Len(motion_trail) + 1

----------------------------------------------------------------------------
(* No outward velocity after a collision (C10)                              *)

\* C10: after an update that processed a collision the velocity component
\* along the outward normal is <= 0.
C10_NotHeadingOut ==
    last.collided => Mul(vx, last.nx) + Mul(vy, last.ny) <= 0

----------------------------------------------------------------------------
(* Motion trail (C3)                                                        *)

\* C3: after k updates, each of which pushed one sample, the motion trail is
\* the min(k, TRAIL_LEN) most recent post-update positions, oldest first; it
\* never holds more than TRAIL_LEN.
C3_TrailIsRecentHistory ==
    /\ Len(history) = frame
    /\ frame > 0 => history[frame] = <<x, y>>
    /\ Len(motion_trail) = Min(frame, TRAIL_LEN)
    /\ Len(motion_trail) <= TRAIL_LEN
    /\ motion_trail = SubSeq(history, frame - Min(frame, TRAIL_LEN) + 1, frame)

\* The trail has overflowed, after updates with and without a collision.
C3_TrailOverflowed ==
    /\ frame > TRAIL_LEN
    /\ Len(motion_trail) = TRAIL_LEN
    /\ motion_trail[1] = history[frame - TRAIL_LEN + 1]
    /\ motion_trail[1] # history[1]
    /\ hits > 0
    /\ ~last.collided

----------------------------------------------------------------------------
(* Impact lifetime (C4)                                                     *)

\* The impacts ever added whose dt's since they were added sum to less than
\* IMPACT_LIFETIME, in the order they were added, each with the life left.
YoungImpacts ==
    LET keep == {i \in 1..Len(added) : added[i].age < IMPACT_LIFETIME}
        nth(k) == CHOOSE i \in keep : Cardinality({j \in keep : j <= i}) = k
    IN  [k \in 1..Cardinality(keep) |->
            [pos |-> added[nth(k)].pos,
             t   |-> IMPACT_LIFETIME - added[nth(k)].age,
             col |-> added[nth(k)].col]]

----------------------------------------------------------------------------
(* Energy decay on bounce (C6)                                              *)

\* The normal component of <<ux, uy>> along the latest normal.
NormalPart(ux, uy) == Mul(ux, last.nx) + Mul(uy, last.ny)

\* The tangential component of <<ux, uy>>.
TangentPart(ux, uy) ==
    <<ux - Mul(NormalPart(ux, uy), last.nx), uy - Mul(NormalPart(ux, uy), last.ny)>>

Norm(u) == Hypot(u[1], u[2])

\* The magnitudes C6 gives the two components after a reflection: the normal
\* one |v.n| * RESTITUTION with the opposite sign, the tangential one
\* |v - (v.n)n| * TANGENTIAL_FRICTION in the same direction.
C6_Scaled ==
    /\ NormalPart(vx, vy) = -Mul(NormalPart(last.ivx, last.ivy), RESTIUTION)
    /\ TangentPart(vx, vy)[1] =
           Mul(TangentPart(last.ivx, last.ivy)[1], TANGENTIAL_FRICTION)
    /\ TangentPart(vx, vy)[2] =
           Mul(TangentPart(last.ivx, last.ivy)[2], TANGENTIAL_FRICTION)

\* C6 as stated: for every velocity and unit normal the two components are
\* scaled so, and both magnitudes are strictly less than before the impact.
C6_BothStrictlyLess ==
    pc = "reflected" =>
        /\ C6_Scaled
        /\ Abs(NormalPart(vx, vy)) < Abs(NormalPart(last.ivx, last.ivy))
        /\ Norm(TangentPart(vx, vy)) < Norm(TangentPart(last.ivx, last.ivy))

\* C6 as amended: the two components are scaled so; each magnitude is
\* strictly less than before the impact when that component was not zero,
\* and a zero component stays zero.
C6_StrictlyLessUnlessZero ==
    pc = "reflected" =>
        /\ C6_Scaled
        /\ IF NormalPart(last.ivx, last.ivy) # 0
           THEN Abs(NormalPart(vx, vy)) < Abs(NormalPart(last.ivx, last.ivy))
           ELSE NormalPart(vx, vy) = 0
        /\ IF TangentPart(last.ivx, last.ivy) # <<0, 0>>
           THEN Norm(TangentPart(vx, vy)) < Norm(TangentPart(last.ivx, last.ivy))
           ELSE TangentPart(vx, vy) = <<0, 0>>

\* An oblique impact has been reflected: both components were not zero.
C6_ObliqueReflected ==
    /\ pc = "reflected"
    /\ last.nx # 0
    /\ last.ny # 0
    /\ NormalPart(last.ivx, last.ivy) > 0
    /\ TangentPart(last.ivx, last.ivy)[1] # 0
    /\ NormalPart(vx, vy) < 0

----------------------------------------------------------------------------
(* Gravity step (C7)                                                        *)

\* The latest update started with the ball at rest at the arena centre.
FromRestAtCentre ==
    /\ frame > 0
    /\ last.x0 = ArenaCx
    /\ last.y0 = ArenaCy
    /\ last.vx0 = 0
    /\ last.vy0 = 0

NoCollisionProcessed ==
    /\ ~last.collided
    /\ hits = 0
    /\ impacts = <<>>
    /\ added = <<>>
    /\ color_index = last.color0

\* C7 as stated: one update of a ball at rest at the arena centre increases
\* vy by exactly GRAVITY * dt, moves the ball by the resulting velocity
\* times dt and processes no collision.
C7_GravityOnly ==
    FromRestAtCentre =>
        /\ vy = Mul(GRAVITY, last.dt)
        /\ vx = 0
        /\ x = ArenaCx
        /\ y = ArenaCy + Mul(vy, last.dt)
        /\ NoCollisionProcessed

\* C7 as amended: for dt of at most half a second, one update of a ball at
\* rest at the arena centre leaves vy at GRAVITY * dt * LINEAR_FRICTION,
\* moves the ball by the resulting velocity times dt and processes no
\* collision.
C7_GravityThenFriction ==
    (FromRestAtCentre /\ last.dt <= S \div 2) =>
        /\ vy = Mul(Mul(GRAVITY, last.dt), LINEAR_FRICTION)
        /\ vx = 0
        /\ x = ArenaCx
        /\ y = ArenaCy + Mul(vy, last.dt)
        /\ NoCollisionProcessed

\* A half-second step from rest at the centre with the radius at its cap.
C7_HalfSecondAtCap ==
    /\ FromRestAtCentre
    /\ last.dt = S \div 2
    /\ radius = TargetMax
    /\ vy > 0
    /\ y > ArenaCy

====
